---- MODULE Spec2Model ----
(***************************************************************************)
(* The core concept transformation algebra (CCT): the catalogue of type    *)
(* operators, data inputs and transformation signatures declared in        *)
(* quangis/transformation/cct.py, and the type checker of applicative      *)
(* expressions that the catalogue is given to (TransformationAlgebra:      *)
(* subtype lattice, constraints, unifier, instantiator, expression         *)
(* checker), as described in sections 3 to 7 of the specification.         *)
(***************************************************************************)
EXTENDS Integers, Sequences, FiniteSets, TLC

(***************************************************************************)
(* Type model.  Every type is a record of one shape:                       *)
(*   k    "op" (type operator applied to args), "var", "fn" or "none"      *)
(*   n    the operator's name                                              *)
(*   id   the variable's identity                                          *)
(*   args the parameters (for "fn": <<domain, codomain>>)                  *)
(*   sup  the direct supertype of a type operator (NoType: none)           *)
(***************************************************************************)
NoType == [k |-> "none", n |-> "", id |-> 0, args |-> <<>>, sup |-> <<>>]

TypeOperator(name, supertype) ==
    [k |-> "op", n |-> name, id |-> 0, args |-> <<>>, sup |-> <<supertype>>]

TypeVar(i) == [k |-> "var", n |-> "", id |-> i, args |-> <<>>, sup |-> <<>>]

\* a ** b of the catalogue: the function type from a to b
Fn(a, b) == [k |-> "fn", n |-> "", id |-> 0, args |-> <<a, b>>, sup |-> <<>>]

\* TypeOperator.R: the relation type over the given parameter types
R(params) == [k |-> "op", n |-> "R", id |-> 0, args |-> params, sup |-> <<>>]

\* Some type variables for convenience
x == TypeVar(1)
y == TypeVar(2)
z == TypeVar(3)
q == TypeVar(4)
q1 == TypeVar(5)
q2 == TypeVar(6)
\* rel, were the seven variables of the catalogue one shared variable
rel_shared == TypeVar(1)
rel == TypeVar(7)

(***************************************************************************)
(* Types and type synonyms                                                 *)
(***************************************************************************)
Val == [k |-> "op", n |-> "Val", id |-> 0, args |-> <<>>, sup |-> <<>>]
Obj == TypeOperator("Obj", Val)
Reg == TypeOperator("Reg", Val)
Loc == TypeOperator("Loc", Val)
Qlt == TypeOperator("Qlt", Val)
Nom == TypeOperator("Nom", Qlt)
Bool == TypeOperator("Bool", Nom)
Ord == TypeOperator("Ord", Nom)
Itv == TypeOperator("Itv", Ord)
Ratio == TypeOperator("Ratio", Itv)
Count == TypeOperator("Count", Ratio)

(***************************************************************************)
(* Constraints attached to type variables, and schemes.                    *)
(*   limit(v, opts)        v is one of the shapes opts, or a subtype of    *)
(*                         one (a single operator: a subtype bound)        *)
(*   has_param(v, p, at)   v is a relation with parameter p at position    *)
(*                         at (at = 0: at some position)                   *)
(***************************************************************************)
limit(v, opts) == [c |-> "limit", v |-> v, opts |-> opts, at |-> 0]

has_param(v, p, at) == [c |-> "has_param", v |-> v, opts |-> <<p>>, at |-> at]

\* a transformation: a type skeleton and the constraints on its variables
Sig(t, cs) == [type |-> t, cons |-> cs, input |-> FALSE, data |-> 0]

\* a data input: the type it yields and the number of names it is given
Data(t, n) == [type |-> t, cons |-> <<>>, input |-> TRUE, data |-> n]

(***************************************************************************)
(* Data inputs                                                             *)
(***************************************************************************)
pointmeasures == Data(R(<<Reg, Itv>>), 1)
amountpatches == Data(R(<<Reg, Nom>>), 1)
contour == Data(R(<<Ord, Reg>>), 1)
objects == Data(R(<<Obj, Ratio>>), 1)
objectregions == Data(R(<<Obj, Reg>>), 1)
contourline == Data(R(<<Itv, Reg>>), 1)
objectcounts == Data(R(<<Obj, Count>>), 1)
field == Data(R(<<Loc, Ratio>>), 1)
object == Data(Obj, 1)
region == Data(Reg, 1)
\* in_, declared with a name like the other data inputs
in_named == Data(Nom, 1)
in_ == Data(Nom, 0)
countV == Data(Count, 1)
ratioV == Data(Ratio, 1)
interval == Data(Itv, 1)
ordinal == Data(Ord, 1)
nominal == Data(Nom, 1)

(***************************************************************************)
(* Math/stats transformations                                              *)
(***************************************************************************)
\* functional
\* compose, yielding the type of its second operand
compose_second == Sig(Fn(Fn(y, z), Fn(Fn(x, y), Fn(x, y))), <<>>)
compose == Sig(Fn(Fn(y, z), Fn(Fn(x, y), Fn(x, z))), <<>>)

\* derivations
ratio == Sig(Fn(Ratio, Fn(Ratio, Ratio)), <<>>)
\* leq, declared over nominal values
leq_nominal == Sig(Fn(Nom, Fn(Nom, Bool)), <<>>)
leq == Sig(Fn(Ord, Fn(Ord, Bool)), <<>>)
eq == Sig(Fn(Val, Fn(Val, Bool)), <<>>)

\* aggregations of collections
count == Sig(Fn(R(<<Obj>>), Ratio), <<>>)
size == Sig(Fn(R(<<Loc>>), Ratio), <<>>)
merge == Sig(Fn(R(<<Reg>>), Reg), <<>>)
centroid == Sig(Fn(R(<<Loc>>), Loc), <<>>)

\* statistical operations
avg == Sig(Fn(R(<<Val, Itv>>), Itv), <<>>)
min == Sig(Fn(R(<<Val, Ord>>), Ord), <<>>)
max == Sig(Fn(R(<<Val, Ord>>), Ord), <<>>)
sum == Sig(Fn(R(<<Val, Count>>), Count), <<>>)

(***************************************************************************)
(* Geographic transformations                                              *)
(***************************************************************************)
\* conversions
reify == Sig(Fn(R(<<Loc>>), Reg), <<>>)
deify == Sig(Fn(Reg, R(<<Loc>>)), <<>>)
get == Sig(Fn(R(<<x>>), x), <<limit(x, <<Val>>)>>)
\* invert, declared with the alternatives of revert
invert_backward ==
    << Sig(Fn(R(<<Ord, Reg>>), R(<<Loc, Ord>>)), <<>>),
       Sig(Fn(R(<<Reg, Nom>>), R(<<Loc, Nom>>)), <<>>) >>
invert ==
    << Sig(Fn(R(<<Loc, Ord>>), R(<<Ord, Reg>>)), <<>>),
       Sig(Fn(R(<<Loc, Nom>>), R(<<Reg, Nom>>)), <<>>) >>
revert ==
    << Sig(Fn(R(<<Ord, Reg>>), R(<<Loc, Ord>>)), <<>>),
       Sig(Fn(R(<<Reg, Nom>>), R(<<Loc, Nom>>)), <<>>) >>

\* quantified relations
oDist == Sig(Fn(R(<<Obj, Reg>>), Fn(R(<<Obj, Reg>>), R(<<Obj, Ratio, Obj>>))), <<>>)
lDist == Sig(Fn(R(<<Loc>>), Fn(R(<<Loc>>), R(<<Loc, Ratio, Loc>>))), <<>>)
loDist == Sig(Fn(R(<<Loc>>), Fn(R(<<Obj, Reg>>), R(<<Loc, Ratio, Obj>>))), <<>>)
oTopo == Sig(Fn(R(<<Obj, Reg>>), Fn(R(<<Obj, Reg>>), R(<<Obj, Nom, Obj>>))), <<>>)
loTopo == Sig(Fn(R(<<Loc>>), Fn(R(<<Obj, Reg>>), R(<<Loc, Nom, Obj>>))), <<>>)
nDist ==
    Sig(Fn(R(<<Obj>>), Fn(R(<<Obj>>),
           Fn(R(<<Obj, Ratio, Obj>>), R(<<Obj, Ratio, Obj>>)))), <<>>)
lVis ==
    Sig(Fn(R(<<Loc>>), Fn(R(<<Loc>>),
           Fn(R(<<Loc, Itv>>), R(<<Loc, Bool, Loc>>)))), <<>>)
interpol == Sig(Fn(R(<<Reg, Itv>>), Fn(R(<<Loc>>), R(<<Loc, Itv>>))), <<>>)

\* amount operations
fcont == Sig(Fn(R(<<Loc, Itv>>), Ratio), <<>>)
ocont == Sig(Fn(R(<<Obj, Ratio>>), Ratio), <<>>)

(***************************************************************************)
(* Relational transformations                                              *)
(***************************************************************************)
\* Projection. Projects a given relation to one of its attributes,
\* resulting in a collection.
\* pi1, projecting to the second attribute
pi1_second == Sig(Fn(rel, R(<<x>>)), <<has_param(rel, x, 2)>>)
\* pi1, its result not linked to the relation's attribute
pi1_unlinked == Sig(Fn(rel, R(<<y>>)), <<has_param(rel, x, 1)>>)
pi1 == Sig(Fn(rel, R(<<x>>)), <<has_param(rel, x, 1)>>)
pi2 == Sig(Fn(rel, R(<<x>>)), <<has_param(rel, x, 2)>>)
pi3 == Sig(Fn(rel, R(<<x>>)), <<has_param(rel, x, 3)>>)

\* select, yielding the collection of the values selected on
select_projected ==
    Sig(Fn(Fn(x, Fn(x, Bool)), Fn(rel, Fn(x, R(<<x>>)))),
        <<limit(x, <<Val>>), has_param(rel, x, 0)>>)

\* Selection. Selects a subset of the relation using a constraint on
\* attribute values, like equality (eq) or order (leq).
select ==
    Sig(Fn(Fn(x, Fn(x, Bool)), Fn(rel, Fn(x, rel))),
        <<limit(x, <<Val>>), has_param(rel, x, 0)>>)

\* Join. Subset a relation to those tuples having an attribute value
\* contained in a collection.
join_subset ==
    Sig(Fn(rel, Fn(R(<<x>>), rel)),
        <<limit(x, <<Val>>), has_param(rel, x, 0)>>)

\* Join. Substitute the quality of a quantified relation to some
\* quality of one of its keys.
\* join_key, its relation argument keyed by the left key only
join_key_left ==
    Sig(Fn(R(<<x, Qlt, y>>), Fn(rel, R(<<x, q, y>>))),
        <<limit(x, <<Val>>), limit(y, <<Val>>), limit(q, <<Qlt>>),
          limit(rel, <<R(<<x, q>>)>>)>>)
join_key ==
    Sig(Fn(R(<<x, Qlt, y>>), Fn(rel, R(<<x, q, y>>))),
        <<limit(x, <<Val>>), limit(y, <<Val>>), limit(q, <<Qlt>>),
          limit(rel, <<R(<<x, q>>), R(<<y, q>>)>>)>>)

\* Join with. Generate a unary concept from two other unary concepts
\* of the same type.
join_with ==
    Sig(Fn(Fn(q1, Fn(q1, q2)), Fn(R(<<x, q1>>), Fn(R(<<x, q1>>), R(<<x, q2>>)))),
        <<limit(q1, <<Qlt>>), limit(q2, <<Qlt>>), limit(x, <<Val>>)>>)

\* Group by. Group quantified relations by the left (right) key,
\* summarizing lists of quality values with the same key value into a new
\* value per key, resulting in a unary core concept relation.
groupbyL ==
    Sig(Fn(Fn(rel, q), Fn(R(<<x, q, y>>), R(<<x, q>>))),
        <<limit(x, <<Val>>), limit(y, <<Val>>), limit(q, <<Qlt>>),
          limit(rel, <<R(<<x>>), R(<<x, q1>>)>>)>>)

groupbyR ==
    Sig(Fn(Fn(rel, q), Fn(R(<<x, q, y>>), R(<<y, q>>))),
        <<limit(x, <<Val>>), limit(y, <<Val>>), limit(q, <<Qlt>>),
          limit(rel, <<R(<<y>>), R(<<y, q>>)>>)>>)

(***************************************************************************)
(* Signature table: the catalogue's attributes registered by keyword, each *)
(* with the list of its alternative schemes.  Keywords are matched without *)
(* regard to case and without the trailing underscore that keeps an        *)
(* attribute name from being a Python keyword (the expressions of test.py  *)
(* write otopo, lotopo and in for oTopo, loTopo and in_).                  *)
(***************************************************************************)
Signatures ==
    [ pointmeasures |-> <<pointmeasures>>, amountpatches |-> <<amountpatches>>,
      contour |-> <<contour>>, objects |-> <<objects>>,
      objectregions |-> <<objectregions>>, contourline |-> <<contourline>>,
      objectcounts |-> <<objectcounts>>, field |-> <<field>>,
      object |-> <<object>>, region |-> <<region>>, in |-> <<in_>>,
      countv |-> <<countV>>, ratiov |-> <<ratioV>>, interval |-> <<interval>>,
      ordinal |-> <<ordinal>>, nominal |-> <<nominal>>,
      compose |-> <<compose>>, ratio |-> <<ratio>>, leq |-> <<leq>>,
      eq |-> <<eq>>, count |-> <<count>>, size |-> <<size>>,
      merge |-> <<merge>>, centroid |-> <<centroid>>, avg |-> <<avg>>,
      min |-> <<min>>, max |-> <<max>>, sum |-> <<sum>>,
      reify |-> <<reify>>, deify |-> <<deify>>, get |-> <<get>>,
      invert |-> invert, revert |-> revert,
      odist |-> <<oDist>>, ldist |-> <<lDist>>, lodist |-> <<loDist>>,
      otopo |-> <<oTopo>>, lotopo |-> <<loTopo>>, ndist |-> <<nDist>>,
      lvis |-> <<lVis>>, interpol |-> <<interpol>>, fcont |-> <<fcont>>,
      ocont |-> <<ocont>>, pi1 |-> <<pi1>>, pi2 |-> <<pi2>>, pi3 |-> <<pi3>>,
      select |-> <<select>>, join_subset |-> <<join_subset>>,
      join_key |-> <<join_key>>, join_with |-> <<join_with>>,
      groupbyl |-> <<groupbyL>>, groupbyr |-> <<groupbyR>> ]

\* The data input the test suite calls objectratios (test_select_match
\* expects R(Obj, Ratio) of a selection from objectratios xs).  Class CCT
\* declares this type under the name objects and has no objectratios.
objectratios == Data(R(<<Obj, Ratio>>), 1)

\* The data input the test suite calls nomcoverages: test12 expects
\* revert (nomcoverages x) to type-check, and of the relations revert is
\* declared for, R(Ord, Reg) and R(Reg, Nom), the second is the nominal one.
\* Class CCT declares no nomcoverages.
nomcoverages == Data(R(<<Reg, Nom>>), 1)

\* The table the test suite checks against (from cct import algebra): the
\* declarations of class CCT, the data inputs objectratios and nomcoverages,
\* and apply2, which test17 and test25 apply to a derivation and two
\* relations as join_with is declared to be applied; class CCT declares no
\* apply2, and no test uses join_with.
algebra ==
    [ objectratios |-> <<objectratios>>, nomcoverages |-> <<nomcoverages>>,
      apply2 |-> <<join_with>> ] @@ Signatures

(***************************************************************************)
(* Subtype lattice (section 4.1)                                           *)
(***************************************************************************)
RECURSIVE isSubtype(_, _)
\* A == B, or A's declared supertype chain reaches B
isSubtype(A, B) ==
    \/ A.n = B.n
    \/ Len(A.sup) = 1 /\ isSubtype(A.sup[1], B)

RECURSIVE CommonAncestor(_, _)
\* the most specific ancestor of A (A included) that B is a subtype of
CommonAncestor(A, B) ==
    IF isSubtype(B, A) THEN A
    ELSE IF Len(A.sup) = 1 THEN CommonAncestor(A.sup[1], B)
    ELSE NoType

\* the most specific common ancestor of A and B that is a subtype of
\* ceiling; NoType stands for the failure NoCommonSupertype
leastUpperBoundBelow(A, B, ceiling) ==
    LET lub == CommonAncestor(A, B)
    IN  IF lub.k = "op" /\ isSubtype(lub, ceiling) THEN lub ELSE NoType

(***************************************************************************)
(* Substitutions.  A substitution is a sequence indexed by variable        *)
(* identity: the type the variable is bound to, or NoType.                 *)
(***************************************************************************)
RECURSIVE Rep(_, _)
\* t with the bindings of its outermost variable followed: an unbound
\* variable, or a type that is no variable
Rep(t, s) ==
    IF t.k = "var" /\ s[t.id].k # "none" THEN Rep(s[t.id], s) ELSE t

RECURSIVE LastVar(_, _)
\* the last variable on the chain of bindings that starts at variable t
LastVar(t, s) ==
    IF s[t.id].k = "var" THEN LastVar(s[t.id], s) ELSE t

RECURSIVE Resolve(_, _)
\* the substitution applied to the whole of t
Resolve(t, s) ==
    LET r == Rep(t, s)
    IN  IF r.k = "var" THEN r
        ELSE [r EXCEPT !.args = [i \in 1..Len(r.args) |-> Resolve(r.args[i], s)]]

RECURSIVE FreeVars(_)
\* the identities of the variables of a type
FreeVars(t) ==
    IF t.k = "var" THEN {t.id}
    ELSE UNION {FreeVars(t.args[i]) : i \in 1..Len(t.args)}

variables(t, s) == FreeVars(Resolve(t, s))

isBase(t) == t.k = "op" /\ Len(t.args) = 0 /\ t.n # "R"

RECURSIVE Chain(_, _)
\* the variables on the chain of bindings that starts at variable t
Chain(t, s) ==
    IF s[t.id].k = "var" THEN {t.id} \cup Chain(s[t.id], s) ELSE {t.id}

\* the ceilings of the variables vs: the operators of the subtype bounds
\* attached to them
Ceilings(vs, cons) ==
    {cons[i].opts[1] : i \in {j \in 1..Len(cons) :
        /\ cons[j].c = "limit"
        /\ cons[j].v.id \in vs
        /\ Len(cons[j].opts) = 1
        /\ isBase(cons[j].opts[1])}}

(***************************************************************************)
(* Unifier (section 4.3).  A context ctx carries the substitution s, the   *)
(* constraints cons and the error err ("" while there is none).            *)
(* unify(lo, hi, ctx, mrg) makes lo a subtype of hi.  With mrg, a variable *)
(* under a subtype bound that is bound to an operator and now receives a   *)
(* second one takes their least upper bound below its ceiling.             *)
(***************************************************************************)
Fail(ctx, kind) == [ctx EXCEPT !.err = kind]

Bind(v, t, ctx) == [ctx EXCEPT !.s[v.id] = t]

RECURSIVE unify(_, _, _, _)
RECURSIVE unifyArgs(_, _, _, _, _)
unifyArgs(as, bs, i, ctx, mrg) ==
    IF i > Len(as) \/ ctx.err # "" THEN ctx
    ELSE \* the context after position i, computed once
         CHOOSE after \in {unifyArgs(as, bs, i + 1, c, mrg) :
                              c \in {unify(as[i], bs[i], ctx, mrg)}} : TRUE

unify(lo, hi, ctx, mrg) ==
    LET a == Rep(lo, ctx.s)
        b == Rep(hi, ctx.s)
    IN  IF ctx.err # "" THEN ctx
        ELSE IF a.k = "var" /\ b.k = "var" THEN
            \* variable vs. variable: union them
            IF a.id = b.id THEN ctx ELSE Bind(a, b, ctx)
        ELSE IF a.k = "var" THEN
            IF a.id \in variables(b, ctx.s) THEN Fail(ctx, "InfiniteType")
            ELSE Bind(a, b, ctx)
        ELSE IF b.k = "var" THEN
            IF b.id \in variables(a, ctx.s) THEN Fail(ctx, "InfiniteType")
            ELSE Bind(b, a, ctx)
        ELSE IF a.k = "fn" /\ b.k = "fn" THEN
            \* a function is accepted where one of a narrower domain and a
            \* wider codomain is expected
            CHOOSE after \in {unify(a.args[2], b.args[2], c, mrg) :
                                 c \in {unify(b.args[1], a.args[1], ctx, mrg)}} : TRUE
        ELSE IF isBase(a) /\ isBase(b) THEN
            IF isSubtype(a, b) THEN ctx
            ELSE IF mrg /\ hi.k = "var"
                        /\ Ceilings(Chain(hi, ctx.s), ctx.cons) # {} THEN
                LET ceilings == Ceilings(Chain(hi, ctx.s), ctx.cons)
                    lubs == {leastUpperBoundBelow(a, b, c) : c \in ceilings}
                IN  IF \E l \in lubs : l.k = "none"
                    THEN Fail(ctx, "NoCommonSupertype")
                    ELSE Bind(LastVar(hi, ctx.s), CommonAncestor(a, b), ctx)
            ELSE Fail(ctx, "SubtypeMismatch")
        ELSE IF a.k = "op" /\ b.k = "op" /\ a.n = b.n
                    /\ Len(a.args) = Len(b.args) THEN
            \* operators match exactly: unify position by position
            unifyArgs(a.args, b.args, 1, ctx, mrg)
        ELSE Fail(ctx, "SubtypeMismatch")

(***************************************************************************)
(* Constraint system (section 4.2).  check re-evaluates one constraint     *)
(* against the substitution: it leaves the context alone when the          *)
(* constraint is satisfied or pending, binds what the constraint forces,   *)
(* and fails with ConstraintViolation when no alternative can hold.        *)
(***************************************************************************)
\* the contexts in which t structurally matches one of the alternatives
Matches(t, alts, ctx) ==
    {m \in {unify(t, alts[i], ctx, FALSE) : i \in 1..Len(alts)} : m.err = ""}

\* the contexts in which a parameter of t at one of the positions is p
ParamMatches(t, p, positions, ctx) ==
    {m \in {unify(t.args[i], p, ctx, FALSE) : i \in positions} : m.err = ""}

Forced(matches, ctx) ==
    IF matches = {} THEN Fail(ctx, "ConstraintViolation")
    ELSE IF Cardinality(matches) = 1 THEN CHOOSE m \in matches : TRUE
    ELSE ctx

check(constraint, ctx) ==
    LET t == Rep(constraint.v, ctx.s)
    IN  IF t.k = "var" THEN ctx
        ELSE IF constraint.c = "limit" THEN
            Forced(Matches(t, constraint.opts, ctx), ctx)
        ELSE IF ~(t.k = "op" /\ t.n = "R") THEN Fail(ctx, "ConstraintViolation")
        ELSE LET positions ==
                     IF constraint.at = 0 THEN 1..Len(t.args)
                     ELSE {constraint.at} \cap 1..Len(t.args)
             IN  Forced(ParamMatches(t, constraint.opts[1], positions, ctx), ctx)

RECURSIVE checkFrom(_, _)
\* one pass over the constraints, from the i-th on
checkFrom(i, ctx) ==
    IF i > Len(ctx.cons) \/ ctx.err # "" THEN ctx
    ELSE \* the context after the i-th constraint, computed once
         CHOOSE after \in {checkFrom(i + 1, c) :
                              c \in {check(ctx.cons[i], ctx)}} : TRUE

(***************************************************************************)
(* Instantiator (section 4.4): a copy of a scheme over fresh variables,    *)
(* those that follow the base variables already allocated.                 *)
(***************************************************************************)
RECURSIVE DataType(_, _)
\* a data input of n names: a function of n free inputs
DataType(t, n) == IF n = 0 THEN t ELSE Fn(TypeVar(7 + n), DataType(t, n - 1))

Skeleton(scheme) == DataType(scheme.type, scheme.data)

BoundVars(scheme) ==
    FreeVars(Skeleton(scheme)) \cup
    UNION {FreeVars(scheme.cons[i].v) \cup
           UNION {FreeVars(scheme.cons[i].opts[j]) :
                      j \in 1..Len(scheme.cons[i].opts)} :
               i \in 1..Len(scheme.cons)}

RECURSIVE Rename(_, _, _)
Rename(t, ids, base) ==
    IF t.k = "var" THEN TypeVar(base + Cardinality({j \in ids : j <= t.id}))
    ELSE [t EXCEPT !.args = [i \in 1..Len(t.args) |-> Rename(t.args[i], ids, base)]]

instantiate(scheme, base) ==
    LET ids == BoundVars(scheme)
    IN  [ type |-> Rename(Skeleton(scheme), ids, base),
          cons |-> [i \in 1..Len(scheme.cons) |->
                      [scheme.cons[i] EXCEPT
                          !.v = Rename(@, ids, base),
                          !.opts = [j \in 1..Len(@) |-> Rename(@[j], ids, base)]]],
          vars |-> {base + i : i \in 1..Cardinality(ids)} ]

(***************************************************************************)
(* Function application at an application site (sections 4.3 and 4.5).     *)
(***************************************************************************)
\* the context after the argument arg is given to the current type f
apply(f, arg, ctx) ==
    LET fr == Rep(f, ctx.s)
    IN  IF fr.k # "fn" THEN Fail(ctx, "ArityMismatch")
        ELSE LET concrete == /\ variables(arg, ctx.s) = {}
                             /\ variables(fr.args[1], ctx.s) = {}
             IN  unify(arg, fr.args[1], ctx, ~concrete)

\* the type the application advances to
codomain(f, s) == Rep(f, s).args[2]

(***************************************************************************)
(* Expressions.  An expression is its sequence of tokens: identifiers and  *)
(* the parentheses "(" and ")".                                            *)
(***************************************************************************)
VARIABLE catalogue   \* the table of the call: "CCT" (CCT().parse) or "algebra"

\* the signature table the checker resolves identifiers against
table == IF catalogue = "algebra" THEN algebra ELSE Signatures

Paren(e) == <<"(">> \o e \o <<")">>

\* the identifiers of e that name an operator with several alternatives
Overloaded(e) ==
    SelectSeq(e, LAMBDA tok : tok \in DOMAIN table /\ Len(table[tok]) > 1)

\* the first choice of alternatives: the first of each overloaded identifier
FirstChoice(e) == [i \in 1..Len(Overloaded(e)) |-> 1]

MoreChoices(ch, e) ==
    \E i \in 1..Len(ch) : ch[i] < Len(table[Overloaded(e)[i]])

\* the choice of alternatives after ch
NextChoice(ch, e) ==
    LET last == CHOOSE i \in 1..Len(ch) :
                    /\ ch[i] < Len(table[Overloaded(e)[i]])
                    /\ \A j \in (i + 1)..Len(ch) :
                           ch[j] = Len(table[Overloaded(e)[j]])
    IN  [i \in 1..Len(ch) |->
            IF i < last THEN ch[i] ELSE IF i = last THEN ch[i] + 1 ELSE 1]

(***************************************************************************)
(* The expression checker: state                                           *)
(***************************************************************************)
VARIABLES
    batch,        \* the expressions handed to parse, one call after another
    allowPartial, \* the caller accepts a result that has free variables
    idx,          \* the call in progress
    pos,          \* the next token of the expression
    choice,       \* the alternative tried for each overloaded identifier
    occ,          \* the overloaded identifiers met so far in this attempt
    stack,        \* the current type of each open application (NoType: none yet)
    subst,        \* the substitution
    constraints,  \* the constraints of the schemes instantiated so far
    insts,        \* the variables created by each instantiation, in order
    err,          \* the error that ended this attempt ("": none)
    pc,           \* "scan", "solve", "resolve" or "done"
    iter,         \* the passes of the constraint fixpoint that changed a binding
    outcomes,     \* the outcome of each attempt of this call
    results       \* the result of each finished call

vars == <<catalogue, batch, allowPartial, idx, pos, choice, occ, stack, subst, constraints,
          insts, err, pc, iter, outcomes, results>>

expr == batch[idx]

context == [s |-> subst, cons |-> constraints, err |-> ""]

\* the number of live variables: the bound on the fixpoint's passes
LiveVars == Len(subst)

scanning == pc = "scan" /\ err = "" /\ pos <= Len(expr)

(***************************************************************************)
(* The expression checker: steps of the left-to-right fold (section 4.5)   *)
(***************************************************************************)
\* The atom of type t, whose instantiation brought the constraints cs and
\* the fresh variables vs, is supplied to the innermost open application.
Supply(t, cs, vs, frames) ==
    LET cur == frames[Len(frames)]
        ctx == [s |-> subst \o [i \in 1..Cardinality(vs) |-> NoType],
                cons |-> constraints \o cs, err |-> ""]
    IN  \E after \in {IF cur.k = "none" THEN ctx ELSE apply(cur, t, ctx)} :
        /\ stack' = [frames EXCEPT ![Len(frames)] =
                         IF cur.k = "none" THEN t
                         ELSE IF after.err = "" THEN codomain(cur, after.s)
                         ELSE cur]
        /\ subst' = after.s
        /\ constraints' = after.cons
        /\ err' = after.err
        /\ pc' = IF cur.k = "none" \/ after.err # "" THEN "scan" ELSE "solve"
        /\ iter' = 0
        /\ pos' = pos + 1

\* An identifier of the signature table: instantiated fresh.
Identifier ==
    /\ scanning
    /\ expr[pos] \in DOMAIN table
    /\ LET schemes == table[expr[pos]]
           several == Len(schemes) > 1
           scheme == IF several THEN schemes[choice[occ + 1]] ELSE schemes[1]
           inst == instantiate(scheme, Len(subst))
       IN  /\ Supply(inst.type, inst.cons, inst.vars, stack)
           /\ insts' = Append(insts, inst.vars)
           /\ occ' = IF several THEN occ + 1 ELSE occ
    /\ UNCHANGED <<catalogue, batch, allowPartial, idx, choice, outcomes, results>>

\* An identifier unknown to the table: a free input of a fresh
\* unconstrained type.
FreeInput ==
    /\ scanning
    /\ expr[pos] \notin DOMAIN table \cup {"(", ")"}
    /\ Supply(TypeVar(Len(subst) + 1), <<>>, {Len(subst) + 1}, stack)
    /\ insts' = Append(insts, {Len(subst) + 1})
    /\ UNCHANGED <<catalogue, batch, allowPartial, idx, choice, occ, outcomes, results>>

OpenParen ==
    /\ scanning
    /\ expr[pos] = "("
    /\ stack' = Append(stack, NoType)
    /\ pos' = pos + 1
    /\ UNCHANGED <<catalogue, batch, allowPartial, idx, choice, occ, subst, constraints,
                   insts, err, pc, iter, outcomes, results>>

\* The parenthesised expression is complete: its type is supplied as an
\* atom to the application that encloses it.
CloseParen ==
    /\ scanning
    /\ expr[pos] = ")"
    /\ Len(stack) > 1
    /\ Supply(stack[Len(stack)], <<>>, {}, SubSeq(stack, 1, Len(stack) - 1))
    /\ UNCHANGED <<catalogue, batch, allowPartial, idx, choice, occ, insts, outcomes, results>>

\* One pass of the constraint fixpoint after a binding (section 4.2).
Recheck ==
    /\ pc = "solve"
    /\ err = ""
    /\ \E after \in {checkFrom(1, context)} :
           IF after.err # "" THEN
               /\ err' = after.err
               /\ UNCHANGED <<subst, pc, iter>>
           ELSE IF after.s = subst THEN
               /\ pc' = "scan"
               /\ UNCHANGED <<subst, err, iter>>
           ELSE IF iter >= LiveVars THEN
               /\ err' = "ConstraintDeadlock"
               /\ UNCHANGED <<subst, pc, iter>>
           ELSE
               /\ subst' = after.s
               /\ iter' = iter + 1
               /\ UNCHANGED <<err, pc>>
    /\ UNCHANGED <<catalogue, batch, allowPartial, idx, pos, choice, occ, stack, constraints,
                   insts, outcomes, results>>

\* the state in which an attempt starts
Fresh ==
    /\ pos' = 1
    /\ occ' = 0
    /\ stack' = <<NoType>>
    /\ subst' = <<>>
    /\ constraints' = <<>>
    /\ insts' = <<>>
    /\ err' = ""
    /\ iter' = 0

\* what the attempt in progress came to
Outcome ==
    [ err |-> err,
      type |-> IF err = "" THEN Resolve(stack[1], subst) ELSE NoType,
      at |-> pos ]

\* The attempt ends, by an error or at the end of the expression; the next
\* choice of alternatives, if there is one, is tried from a fresh state.
EndAlternative ==
    /\ pc \in {"scan", "solve"}
    /\ err # "" \/ (pc = "scan" /\ pos > Len(expr))
    /\ outcomes' = Append(outcomes, Outcome)
    /\ IF MoreChoices(choice, expr)
       THEN /\ choice' = NextChoice(choice, expr)
            /\ pc' = "scan"
            /\ Fresh
       ELSE /\ pc' = "resolve"
            /\ UNCHANGED <<choice, pos, occ, stack, subst, constraints, insts,
                           err, iter>>
    /\ UNCHANGED <<catalogue, batch, allowPartial, idx, results>>

\* the failure that got furthest into the expression (the first such)
MostSpecific(outs) ==
    LET far == CHOOSE i \in 1..Len(outs) :
                   /\ \A j \in 1..Len(outs) : outs[j].at <= outs[i].at
                   /\ \A j \in 1..(i - 1) : outs[j].at < outs[i].at
    IN  outs[far].err

\* The results an operator of several alternatives admits.  When no
\* alternative type-checks to completion, the most specific failure.  When
\* some do, the type of one that did: the test suite expects
\* invert (field x), which both alternatives of invert accept, to return a
\* type (test13), and nothing states which alternative gives it, so each
\* is admitted.
Overloads(outs) ==
    LET ok == {i \in 1..Len(outs) : outs[i].err = ""}
    IN  IF ok = {} THEN {[err |-> MostSpecific(outs), type |-> NoType]}
        ELSE {[err |-> "", type |-> outs[i].type] : i \in ok}

\* the result of the call, given the outcome r of its alternatives
Result(r, partial) ==
    IF r.err = "" /\ ~partial /\ FreeVars(r.type) # {}
    THEN [err |-> "UnresolvedType", type |-> NoType]
    ELSE r

\* The call returns; the next expression of the batch is checked from a
\* fresh state.
Finish ==
    /\ pc = "resolve"
    /\ \E r \in Overloads(outcomes) :
           results' = Append(results, Result(r, allowPartial))
    /\ idx' = idx + 1
    /\ outcomes' = <<>>
    /\ Fresh
    /\ IF idx < Len(batch)
       THEN /\ pc' = "scan"
            /\ choice' = FirstChoice(batch[idx + 1])
       ELSE /\ pc' = "done"
            /\ choice' = <<>>
    /\ UNCHANGED <<catalogue, batch, allowPartial>>

Next ==
    \/ Identifier
    \/ FreeInput
    \/ OpenParen
    \/ CloseParen
    \/ Recheck
    \/ EndAlternative
    \/ Finish

(***************************************************************************)
(* Inputs: the expressions of the test suite (test.py), and families of    *)
(* expressions built from the catalogue.                                   *)
(***************************************************************************)
\* the most names handed to one data input
MaxArgs == 2

\* names of externally supplied data, unknown to the signature table
Names == <<"xs", "ys", "zs", "ws">>

\* keyword name: a data input given its name
On(keyword, name) == Paren(<<keyword, name>>)

test_projection == <<"pi1">> \o On("objectregions", "xs")
test_select_match ==
    <<"select", "leq">> \o On("objectratios", "xs") \o On("interval", "x")
test_select_mismatch ==
    <<"select", "leq">> \o On("objectratios", "xs") \o On("nominal", "x")
test01 ==
    <<"compose", "deify", "reify">> \o Paren(<<"pi1">> \o On("field", "something"))
test02 == <<"select", "eq">> \o On("objectregions", "x") \o On("object", "y")
test03 == <<"select", "eq">> \o On("amountpatches", "x") \o On("nominal", "y")
test04 == <<"select", "leq">> \o On("contour", "x") \o On("ordinal", "y")
\* select eq (otopo e1 e2) in
Touching(e1, e2) ==
    <<"select", "eq">> \o Paren(<<"otopo">> \o e1 \o e2) \o <<"in">>
\* select eq (lotopo e1 e2) in
Within(e1, e2) ==
    <<"select", "eq">> \o Paren(<<"lotopo">> \o e1 \o e2) \o <<"in">>
\* select eq (otopo (objectregions x) (objectregions y)) in
TouchingXY == Touching(On("objectregions", "x"), On("objectregions", "y"))
test05 ==
    <<"join_subset">> \o On("objectregions", "x")
        \o Paren(<<"pi1">> \o Paren(TouchingXY))
test06 ==
    <<"groupbyl", "sum">> \o
        Paren(<<"join_key">> \o Paren(TouchingXY) \o On("objectcounts", "z"))
test07 ==
    <<"groupbyl", "sum">> \o
        Paren(<<"join_key">> \o Paren(TouchingXY) \o On("objectratios", "z"))
test08 ==
    <<"groupbyl", "avg">> \o
        Paren(<<"join_key">> \o Paren(TouchingXY) \o On("objectratios", "z"))
test09 ==
    <<"groupbyl", "avg">> \o
        Paren(<<"join_key">> \o Paren(TouchingXY) \o On("objectcounts", "z"))
test10 == <<"groupbyr", "count">> \o Paren(TouchingXY)
test11 == <<"revert">> \o On("contour", "x")
test12 == <<"revert">> \o On("nomcoverages", "x")
test13 == <<"invert">> \o On("field", "x")
test14 == <<"select", "leq">> \o On("field", "x") \o On("ordinal", "y")
test15 ==
    <<"groupbyr", "size">>
        \o Paren(Within(Paren(<<"pi1">> \o On("field", "x")),
                        On("objectregions", "y")))
\* deify (merge (pi2 e))
Extent(e) == Paren(<<"deify">> \o Paren(<<"merge">> \o Paren(<<"pi2">> \o e)))
test16 ==
    <<"groupbyr", "size">>
        \o Paren(Within(Extent(On("objectregions", "x")), On("objectregions", "x")))
test17 ==
    <<"apply2", "ratio">> \o On("objectratios", "x") \o On("objectratios", "y")
test18 ==
    <<"interpol">> \o On("pointmeasures", "x") \o Extent(On("objectregions", "y"))
test19 ==
    <<"groupbyl", "avg">> \o
        Paren(<<"join_key">>
                  \o Paren(Within(Paren(<<"pi1">> \o On("field", "x")),
                                  On("objectregions", "y")))
                  \o On("field", "b"))
test20 == <<"join_subset">> \o On("field", "x") \o Extent(On("objectregions", "x"))
test21 == <<"reify">> \o Paren(<<"pi1">> \o On("field", "x"))
\* select eq (objectregions muni) (object Utrecht)
Utrecht(muni) ==
    Paren(<<"select", "eq">> \o On("objectregions", muni) \o On("object", "Utrecht"))
\* join_subset (objectregions n) (pi1 (select eq (otopo (objectregions n) e) in))
Neighbours(n, e) ==
    Paren(<<"join_subset">> \o On("objectregions", n)
              \o Paren(<<"pi1">> \o Paren(Touching(On("objectregions", n), e))))
test22 ==
    <<"groupbyr", "count">>
        \o Paren(Touching(On("objectregions", "_:source3"),
              Neighbours("_:source2",
                  Paren(<<"select", "eq">> \o On("objectregions", "_:source1")
                            \o On("object", "Amsterdam")))))
test23 ==
    <<"join_subset">> \o On("objectregions", "roads")
        \o Paren(<<"pi3">> \o
              Paren(Within(Paren(<<"deify">> \o On("region", "1234")),
                           On("objectregions", "roads"))))
test24 ==
    <<"reify">> \o
        Paren(<<"pi1">> \o
            Paren(<<"select", "leq">>
                \o Paren(<<"join_subset">>
                             \o Paren(<<"revert">> \o On("contour", "noise"))
                             \o Extent(Utrecht("muni")))
                \o On("ordinal", "70")))
test25 ==
    <<"apply2", "ratio">>
        \o Paren(<<"groupbyr", "size">> \o
              Paren(Within(Paren(<<"pi1">> \o
                               Paren(<<"select", "leq">>
                                         \o Paren(<<"revert">> \o On("contour", "noise"))
                                         \o On("ordinal", "70"))),
                           Utrecht("muni"))))
        \o Paren(<<"groupbyr", "size">> \o
              Paren(Within(Extent(On("objectregions", "muni")), Utrecht("muni"))))
test26 ==
    <<"groupbyr", "sum">> \o
        Paren(<<"join_key">>
                  \o Paren(Touching(On("objectregions", "households"),
                                    Neighbours("neighborhoods", Utrecht("muni"))))
                  \o On("objectcounts", "households"))
test27 ==
    <<"groupbyr", "avg">> \o
        Paren(<<"join_key">>
                  \o Paren(Within(Extent(Utrecht("muni")),
                                  Neighbours("neighborhoods", Utrecht("muni"))))
                  \o Paren(<<"interpol">> \o On("pointmeasures", "temperature")
                               \o Extent(Utrecht("muni"))))

\* The tests of the suite, each the string it hands to parse.
Tests ==
    { test_projection, test_select_match, test_select_mismatch, test01, test02,
      test03, test04, test05, test06, test07, test08, test09, test10, test11,
      test12, test13, test14, test15, test16, test17, test18, test19, test20,
      test21, test22, test23, test24, test25, test26, test27 }

\* the keywords of the data inputs, and of the transformations of n arguments
Inputs == {kw \in DOMAIN Signatures : Signatures[kw][1].input}

RECURSIVE Params(_)
Params(t) == IF t.k = "fn" THEN 1 + Params(t.args[2]) ELSE 0

Transformations(n) ==
    {kw \in DOMAIN Signatures \ Inputs : Params(Signatures[kw][1].type) = n}

\* a data input given the first n names
Given(kw, n) == <<kw>> \o SubSeq(Names, 1, n)

\* a data input given the names it is declared with, as an argument
Leaf(kw) ==
    IF Signatures[kw][1].data = 0 THEN <<kw>>
    ELSE Paren(Given(kw, Signatures[kw][1].data))

Leaves == {Leaf(kw) : kw \in Inputs}

\* a data input given none to MaxArgs names; a name not in the table given
\* the same; a transformation of one argument given such a name
Arities ==
    {Given(kw, n) : kw \in Inputs \cup {"unknown"}, n \in 0..MaxArgs}
        \cup {<<kw, "xs">> : kw \in Transformations(1)}

\* a transformation of one or two arguments given data inputs
Applied1 == {<<kw>> \o a : kw \in Transformations(1), a \in Leaves}

Applied2 ==
    {<<kw>> \o a \o b : kw \in Transformations(2) \ {"groupbyl", "groupbyr"},
                       a \in Leaves, b \in Leaves}

\* a selection by a comparison, of a data input, on a value
Selections ==
    {<<"select", cmp>> \o a \o b : cmp \in {"eq", "leq"}, a \in Leaves, b \in Leaves}

\* quantified relations between data inputs
Quantified ==
    { Paren(TouchingXY),
      Paren(<<"odist">> \o On("objectregions", "x") \o On("objectregions", "y")),
      Paren(<<"lotopo">> \o Paren(<<"pi1">> \o On("field", "x"))
                \o On("objectregions", "y")) }

\* a quantified relation grouped by a key, its quality summarised
Groupings ==
    {<<kw, f>> \o r : kw \in {"groupbyl", "groupbyr"}, f \in Transformations(1),
                     r \in Quantified}

\* a quantified relation joined with the quality of one of its keys
KeyJoins == {<<"join_key">> \o r \o a : r \in Quantified, a \in Leaves}

\* two data inputs joined with a derivation
JoinsWith ==
    {<<"join_with", f>> \o a \o b :
        f \in {"ratio", "leq", "eq"}, a \in Leaves, b \in Leaves}

\* a quantified relation projected to one of its attributes
Projections ==
    {<<kw>> \o r : kw \in {"pi1", "pi2", "pi3"}, r \in Quantified}

\* the expressions in which every operator applied has all its arguments
\* and every leaf is a declared data input given its names
FullyApplied ==
    Tests \cup Applied1 \cup Applied2 \cup Selections \cup Groupings
        \cup KeyJoins \cup JoinsWith \cup Projections
        \cup {Given(kw, Signatures[kw][1].data) : kw \in Inputs}

\* compose f g a, and the direct sequential application f (g a)
Composed(f, g, a) == <<"compose", f, g>> \o a

Sequential(f, g, a) == <<f>> \o Paren(<<g>> \o a)

\* test01, with the sequential application it stands for
test01_pair ==
    <<test01, Sequential("deify", "reify", Paren(<<"pi1">> \o On("field", "something")))>>

Compositions ==
    {<<Composed(f, g, a), Sequential(f, g, a)>> :
        f \in Transformations(1), g \in Transformations(1), a \in Leaves}
        \cup {test01_pair}

\* The calls: every batch through class CCT, and the test suite through the
\* table it imports.
Calls ==
    {<<"CCT", <<e>>>> : e \in FullyApplied \cup Arities}
        \cup {<<"CCT", b>> : b \in Compositions}
        \cup {<<"algebra", <<e>>>> : e \in Tests}

\* the calls whose constraints the fixpoint runs on: the test suite and
\* the expressions over quantified relations
Fixpoints ==
    {<<"CCT", <<e>>>> : e \in Tests \cup Groupings \cup KeyJoins \cup Projections}
        \cup {<<"algebra", <<e>>>> : e \in Tests}

\* the checker as constructed, before the first of the calls of one batch
Start(calls) ==
    /\ \E c \in calls : catalogue = c[1] /\ batch = c[2]
    /\ allowPartial \in BOOLEAN
    /\ idx = 1
    /\ pos = 1
    /\ choice = FirstChoice(batch[1])
    /\ occ = 0
    /\ stack = <<NoType>>
    /\ subst = <<>>
    /\ constraints = <<>>
    /\ insts = <<>>
    /\ err = ""
    /\ pc = "scan"
    /\ iter = 0
    /\ outcomes = <<>>
    /\ results = <<>>

Init == Start(Calls)

Spec == Init /\ [][Next]_vars

\* The checker runs to completion: parse is one sequential call, so a step
\* that can be taken is taken.
FairSpec == Start(Fixpoints) /\ [][Next]_vars /\ WF_vars(Next)

(***************************************************************************)
(* Properties                                                              *)
(***************************************************************************)
Ok(t) == [err |-> "", type |-> t]

Failure(kind) == [err |-> kind, type |-> NoType]

\* the type a data input is declared to yield
Yields(kw) == Signatures[kw][1].type

isRelation(t) == t.k = "op" /\ t.n = "R"

\* t is a relation one of whose parameters is a subtype of B
hasParamBelow(t, B) ==
    isRelation(t) /\ \E i \in 1..Len(t.args) :
                         isBase(t.args[i]) /\ isSubtype(t.args[i], B)

\* select cmp r v, over the data inputs r and v
Selection(cmp, r, v) == <<"select", cmp>> \o Leaf(r) \o Leaf(v)

\* the attempts that type-checked to completion
Succeeded(outs) == {i \in 1..Len(outs) : outs[i].err = ""}

\* objects touching objects, joined with the counts of the objects
LeftKeyJoin == <<"join_key">> \o Paren(TouchingXY) \o Leaf("objectcounts")

\* locations in objects, joined with the counts of the objects
RightKeyJoin ==
    <<"join_key">>
        \o Paren(<<"lotopo">> \o Paren(<<"pi1">> \o On("field", "x"))
                      \o On("objectregions", "y"))
        \o Leaf("objectcounts")

\* the number of variables of the substitution s that are not bound
Unbound(s) == Cardinality({v \in 1..Len(s) : s[v].k = "none"})

\* the least and the greatest variable of an instantiation
First(vs) == CHOOSE v \in vs : \A w \in vs : v <= w

Last(vs) == CHOOSE v \in vs : \A w \in vs : w <= v

\* C1 as stated: select leq (objectratios xs) (nominal x), checked against
\* the table of the tests, ends with SubtypeMismatch and no type, and so
\* does every selection by leq whose value argument has the nominal type,
\* whatever relation is selected from.
C1_Original ==
    pc = "done" =>
        /\ (catalogue = "algebra" /\ batch = <<test_select_mismatch>>) =>
               results[1] = Failure("SubtypeMismatch")
        /\ \A r \in Inputs, v \in Inputs :
               (Yields(v) = Nom /\ batch = <<Selection("leq", r, v)>>) =>
                   results[1] = Failure("SubtypeMismatch")

\* C1 (amended): select leq (objectratios xs) (nominal x), checked against
\* the table of the tests, ends with SubtypeMismatch and no type; a
\* selection by leq on a value of the nominal type always fails: with
\* SubtypeMismatch when the relation argument has a parameter that is a
\* subtype of Ord, and with ConstraintViolation, raised at the relation
\* argument, when it has none.
C1_SelectMismatch ==
    pc = "done" =>
        /\ (catalogue = "algebra" /\ batch = <<test_select_mismatch>>) =>
               results[1] = Failure("SubtypeMismatch")
        /\ \A r \in Inputs, v \in Inputs :
               (Yields(v) = Nom /\ batch = <<Selection("leq", r, v)>>) =>
                   results[1] = Failure(IF hasParamBelow(Yields(r), Ord)
                                        THEN "SubtypeMismatch"
                                        ELSE "ConstraintViolation")

C1_Witness ==
    /\ pc = "done"
    /\ catalogue = "algebra"
    /\ batch = <<test_select_mismatch>>
    /\ results = <<Failure("SubtypeMismatch")>>

\* C2: select leq (objectratios xs) (interval x), checked against the table
\* of the tests, has type R(Obj, Ratio); a selection by leq yields the type
\* of its relation argument unchanged when the relation has a parameter
\* that is a subtype of Ord and the value's type is a subtype of Ord.
C2_SelectMatch ==
    pc = "done" =>
        /\ (catalogue = "algebra" /\ batch = <<test_select_match>>) =>
               results[1] = Ok(R(<<Obj, Ratio>>))
        /\ \A r \in Inputs, v \in Inputs :
               ( /\ batch = <<Selection("leq", r, v)>>
                 /\ hasParamBelow(Yields(r), Ord)
                 /\ isBase(Yields(v)) /\ isSubtype(Yields(v), Ord) ) =>
                   results[1] = Ok(Yields(r))

C2_Witness ==
    /\ pc = "done"
    /\ catalogue = "algebra"
    /\ batch = <<test_select_match>>
    /\ results = <<Ok(R(<<Obj, Ratio>>))>>

\* C3: pi1 of a relation R(X, ...) has type R(X): of every data input that
\* yields a relation, of the quantified relations, and of
\* objectregions xs, whose projection is R(Obj).
C3_Projection ==
    pc = "done" =>
        /\ batch = <<test_projection>> => results[1] = Ok(R(<<Obj>>))
        /\ \A r \in Inputs :
               (isRelation(Yields(r)) /\ batch = <<<<"pi1">> \o Leaf(r)>>) =>
                   results[1] = Ok(R(<<Yields(r).args[1]>>))
        /\ \A r \in Quantified :
               batch = <<<<"pi1">> \o r>> =>
                   results[1] = Ok(R(<<IF r[2] = "lotopo" THEN Loc ELSE Obj>>))

C3_Witness ==
    /\ pc = "done"
    /\ batch = <<test_projection>>
    /\ results = <<Ok(R(<<Obj>>))>>

\* C4: a fully applied expression over declared data inputs that
\* type-checks has a type without free variables, whether or not partial
\* results are permitted; test22 type-checks against either table, and so
\* do test12, test17 and test25 against the table of the tests.
C4_NoFreeVariables ==
    pc = "done" =>
        /\ \A i \in 1..Len(batch) :
               ( /\ batch[i] \in FullyApplied \/ batch \in Compositions
                 /\ results[i].err = "" ) =>
                   FreeVars(results[i].type) = {}
        /\ batch = <<test22>> =>
               results[1].err = "" /\ FreeVars(results[1].type) = {}
        /\ (catalogue = "algebra" /\ batch \in {<<test12>>, <<test17>>, <<test25>>}) =>
               results[1].err = "" /\ FreeVars(results[1].type) = {}

C4_Witness ==
    /\ pc = "done"
    /\ allowPartial
    /\ batch = <<test22>>
    /\ results[1].err = ""
    /\ FreeVars(results[1].type) = {}

\* C5: revert (contour x) and invert (field x), each the application of an
\* operator of two alternatives to a declared data input, type-check
\* without error to a type without free variables.  Only the first
\* alternative of revert accepts contour's R(Ord, Reg), and the type is
\* R(Loc, Ord); both alternatives of invert accept field's R(Loc, Ratio),
\* and the type is that of one of them, R(Ord, Reg) or R(Reg, Nom).
C5_Alternatives ==
    /\ (pc = "resolve" /\ expr = test11) =>
           /\ Succeeded(outcomes) = {1}
           /\ outcomes[1].type = R(<<Loc, Ord>>)
    /\ (pc = "resolve" /\ expr = test13) =>
           /\ Succeeded(outcomes) = {1, 2}
           /\ outcomes[1].type = R(<<Ord, Reg>>)
           /\ outcomes[2].type = R(<<Reg, Nom>>)
    /\ pc = "done" =>
           /\ \A e \in {test11, test13} :
                  batch = <<e>> =>
                      results[1].err = "" /\ FreeVars(results[1].type) = {}
           /\ batch = <<test11>> => results[1] = Ok(R(<<Loc, Ord>>))
           /\ batch = <<test13>> =>
                  results[1] \in {Ok(R(<<Ord, Reg>>)), Ok(R(<<Reg, Nom>>))}

C5_Witness ==
    /\ pc = "done"
    /\ ~allowPartial
    /\ batch = <<test13>>
    /\ results[1].err = ""
    /\ FreeVars(results[1].type) = {}

\* C6 as stated: every attempt of an alternative starts from the empty
\* substitution, on its own copy of the bindings that precede the operator;
\* the call returns a type only when exactly one attempt type-checked to
\* completion, AmbiguousOverload when more than one did, and an error and
\* no type when none did.
C6_Original ==
    [][ /\ (pc' = "scan" /\ Len(outcomes') = Len(outcomes) + 1) =>
               subst' = <<>> /\ constraints' = <<>> /\ stack' = <<NoType>>
        /\ pc = "resolve" =>
               LET ok == Succeeded(outcomes)
                   r == results'[Len(results')]
               IN  /\ r.err = "" =>
                          Cardinality(ok) = 1 /\ \A i \in ok : r.type = outcomes[i].type
                   /\ Cardinality(ok) > 1 => r = Failure("AmbiguousOverload")
                   /\ ok = {} => r.err # "" /\ r.type = NoType
      ]_vars

\* C7: whenever compose f g a or f (g a) type-checks, both do, and for f
\* and g of one declared type each to the same type, which is the codomain
\* of f where f is declared without variables; test01,
\* compose deify reify (pi1 (field something)), has the type R(Loc).
C7_Composition ==
    (pc = "done" /\ batch \in Compositions) =>
        LET f == Signatures[batch[1][2]]
            g == Signatures[batch[1][3]]
        IN  /\ (results[1].err = "" \/ results[2].err = "") =>
                   /\ results[1].err = results[2].err
                   /\ (Len(f) = 1 /\ Len(g) = 1) => results[1] = results[2]
                   /\ (Len(f) = 1 /\ FreeVars(f[1].type) = {}) =>
                          results[1].type = f[1].type.args[2]
            /\ batch = test01_pair => results[1] = Ok(R(<<Loc>>))

C7_Witness ==
    /\ pc = "done"
    /\ batch = test01_pair
    /\ results = <<Ok(R(<<Loc>>)), Ok(R(<<Loc>>))>>

\* C8: the instantiations of one attempt have pairwise disjoint variables,
\* and no constraint spans two of them; in test05 the x of select is Val
\* and that of pi1 and of join_subset is Obj, the rel of join_subset is
\* R(Obj, Reg) and that of pi1 and of select is R(Obj, Nom, Obj), and the
\* expression type-checks to R(Obj, Reg).
C8_FreshVariables ==
    /\ \A i \in 1..Len(insts), j \in 1..Len(insts) :
           i # j => insts[i] \cap insts[j] = {}
    /\ \A c \in 1..Len(constraints) :
           \E i \in 1..Len(insts) :
               FreeVars(constraints[c].v) \cup
               UNION {FreeVars(constraints[c].opts[o]) :
                          o \in 1..Len(constraints[c].opts)} \subseteq insts[i]
    /\ (pc = "resolve" /\ batch = <<test05>>) =>
           /\ outcomes = <<[err |-> "", type |-> R(<<Obj, Reg>>), at |-> Len(test05) + 1]>>
           /\ Resolve(TypeVar(First(insts[1])), subst) = Obj
           /\ Resolve(TypeVar(Last(insts[1])), subst) = R(<<Obj, Reg>>)
           /\ Resolve(TypeVar(First(insts[4])), subst) = Obj
           /\ Resolve(TypeVar(Last(insts[4])), subst) = R(<<Obj, Nom, Obj>>)
           /\ Resolve(TypeVar(First(insts[5])), subst) = Val
           /\ Resolve(TypeVar(Last(insts[5])), subst) = R(<<Obj, Nom, Obj>>)

C8_Witness ==
    /\ pc = "resolve"
    /\ batch = <<test05>>
    /\ err = ""
    /\ Resolve(TypeVar(First(insts[4])), subst) # Resolve(TypeVar(First(insts[5])), subst)

\* C9: an attempt ends with ArityMismatch exactly when an atom was supplied
\* to a current type that is no function type; a data input accepts the
\* names it is declared with and no more (objectregions one, in none); a
\* name unknown to the table, supplied as an argument, brings no error of
\* its own: every alternative of the transformation it is supplied to
\* accepts it.
C9_Arity ==
    /\ (pc = "scan" /\ err # "") =>
           /\ err = "ArityMismatch" <=> Rep(stack[Len(stack)], subst).k # "fn"
           /\ expr[pos - 1] \notin DOMAIN table \cup {")"} =>
                  err = "ArityMismatch"
    /\ pc = "done" =>
           /\ batch = <<Given("objectregions", 1)>> =>
                  results[1] = Ok(R(<<Obj, Reg>>))
           /\ batch \in {<<Given("objectregions", 2)>>, <<Given("in", 1)>>} =>
                  results[1] = Failure("ArityMismatch")
           /\ \A kw \in Inputs, n \in 0..MaxArgs :
                  batch = <<Given(kw, n)>> =>
                      IF n > Signatures[kw][1].data
                      THEN results[1] = Failure("ArityMismatch")
                      ELSE IF n = Signatures[kw][1].data
                      THEN results[1] = Ok(Yields(kw))
                      ELSE results[1].err \in {"", "UnresolvedType"}
           /\ \A kw \in Transformations(1) :
                  batch = <<<<kw, "xs">>>> =>
                      results[1].err \in {"", "UnresolvedType"}
    /\ (pc = "resolve" /\ expr \in {<<kw, "xs">> : kw \in Transformations(1)}) =>
           \A i \in 1..Len(outcomes) : outcomes[i].err = ""

C9_Witness ==
    /\ pc = "done"
    /\ batch = <<Given("objectregions", 2)>>
    /\ results = <<Failure("ArityMismatch")>>

====
